---- MODULE Spec2Model ----
(***************************************************************************)
(* Verification model of py_ecc/bls/utils.py: the compressed point codec   *)
(* of G1 and G2, the key and signature byte codec, the deterministic       *)
(* square root in FQ2 and the hash-to-G2 pipeline.                         *)
(*                                                                         *)
(* The functions are pure; every specification below draws an input in     *)
(* Init and its actions apply the functions to it.                         *)
(*                                                                         *)
(* The arithmetic is carried out in a scaled instance of the curve: TLC    *)
(* integers are 32 bits wide, so the 381-bit modulus is replaced by the    *)
(* smallest prime of the same shape.  q = 43 keeps every congruence that   *)
(* the code relies on:                                                     *)
(*    q % 4 = 3            (y = v^((q+1)/4) is a square root in FQ)        *)
(*    q % 16 = 11          (FQ2_ORDER % 16 = 8, used by the FQ2 root)      *)
(*    q % 3 = 1, and neither x^3 + b = 0 nor x^3 + b2 = 0 has a solution   *)
(*                         (both curves have odd order: no point has y=0)  *)
(*    2^(bits-1) < q < 2^bits  (x values in [q, 2^bits) exist)             *)
(* with bits = 6 in place of 381, so that the flags are bits 6, 7 and 8    *)
(* and an encoding is 9 bits: three octal digits in place of 48 bytes.     *)
(***************************************************************************)
EXTENDS Integers, Sequences, FiniteSets

VARIABLES fn, pc, arg, mid, res

vars == <<fn, pc, arg, mid, res>>

(***************************************************************************)
(* Constants of the curve and of the encoding (scaled, see above).         *)
(***************************************************************************)
q == 43
b == 9
b2 == <<9, 9>>
POW_2_381 == 64
POW_2_382 == 128
POW_2_383 == 256
FQ2_ORDER == q * q - 1

(***************************************************************************)
(* Base field FQ: integers modulo q.                                       *)
(***************************************************************************)
FQ(n) == n % q

RECURSIVE pow(_, _, _)
pow(a, e, m) ==
    IF e = 0 THEN 1 % m
    ELSE LET h == pow(a, e \div 2, m)
             s == (h * h) % m
         IN  IF e % 2 = 1 THEN (s * (a % m)) % m ELSE s

FQInv(a) == pow(a, q - 2, q)

FQSet == 0 .. (q - 1)

(***************************************************************************)
(* Extension field FQ2 = FQ[i] / (i^2 + 1): pairs <<re, im>>.              *)
(***************************************************************************)
FQ2(c) == <<c[1] % q, c[2] % q>>

FQ2Set == FQSet \X FQSet

FQ2Zero == <<0, 0>>
FQ2One == <<1, 0>>

FQ2Add(u, v) == <<(u[1] + v[1]) % q, (u[2] + v[2]) % q>>

FQ2Neg(u) == <<(q - u[1]) % q, (q - u[2]) % q>>

FQ2Mul(u, v) ==
    <<(u[1] * v[1] + (q - u[2]) * v[2]) % q, (u[1] * v[2] + u[2] * v[1]) % q>>

FQ2Inv(u) ==
    LET n == FQInv((u[1] * u[1] + u[2] * u[2]) % q)
    IN  <<(u[1] * n) % q, ((q - u[2]) * n) % q>>

FQ2Div(u, v) == FQ2Mul(u, FQ2Inv(v))

RECURSIVE FQ2Pow(_, _)
FQ2Pow(u, e) ==
    IF e = 0 THEN FQ2One
    ELSE LET h == FQ2Pow(u, e \div 2)
             s == FQ2Mul(h, h)
         IN  IF e % 2 = 1 THEN FQ2Mul(s, u) ELSE s

EIGTH_ROOTS_OF_UNITY ==
    [k \in 0 .. 7 |-> FQ2Pow(<<1, 1>>, (FQ2_ORDER * k) \div 8)]

(***************************************************************************)
(* Python values: None, and the outcome of a call (a value or a raised     *)
(* ValueError with its message).                                           *)
(***************************************************************************)
None == <<>>

Ok(v) == [tag |-> "ok", val |-> v]
Raise(m) == [tag |-> "error", val |-> m]
Pending == [tag |-> "pending", val |-> <<>>]

NotOnG1 == "The given point is not on G1: y**2 = x**3 + b"
NotOnTwist == "The given point is not on the twisted curve over FQ**2"
NoSquareroot == "Failed to find a modular squareroot"

(***************************************************************************)
(* modular_squareroot_in_FQ2                                               *)
(***************************************************************************)
RootIndex(check) ==
    CHOOSE k \in 0 .. 7 :
        /\ EIGTH_ROOTS_OF_UNITY[k] = check
        /\ \A j \in 0 .. (k - 1) : EIGTH_ROOTS_OF_UNITY[j] # check

modular_squareroot_in_FQ2_unhalved(value) ==
    LET candidate_squareroot == FQ2Pow(value, (FQ2_ORDER + 8) \div 16)
        check == FQ2Div(FQ2Mul(candidate_squareroot, candidate_squareroot), value)
    IN  IF \E k \in {0, 2, 4, 6} : EIGTH_ROOTS_OF_UNITY[k] = check
        THEN LET x1 == FQ2Div(candidate_squareroot,
                              EIGTH_ROOTS_OF_UNITY[RootIndex(check)])
                 x2 == FQ2Neg(x1)
             IN  IF x1[2] > x2[2] \/ (x1[2] = x2[2] /\ x1[1] > x2[1])
                 THEN x1 ELSE x2
        ELSE None

modular_squareroot_in_FQ2_all_roots(value) ==
    LET candidate_squareroot == FQ2Pow(value, (FQ2_ORDER + 8) \div 16)
        check == FQ2Div(FQ2Mul(candidate_squareroot, candidate_squareroot), value)
    IN  IF \E k \in 0 .. 7 : EIGTH_ROOTS_OF_UNITY[k] = check
        THEN LET x1 == FQ2Div(candidate_squareroot,
                              EIGTH_ROOTS_OF_UNITY[RootIndex(check) \div 2])
                 x2 == FQ2Neg(x1)
             IN  IF x1[2] > x2[2] \/ (x1[2] = x2[2] /\ x1[1] > x2[1])
                 THEN x1 ELSE x2
        ELSE None

modular_squareroot_in_FQ2(value) ==
    LET candidate_squareroot == FQ2Pow(value, (FQ2_ORDER + 8) \div 16)
        check == FQ2Div(FQ2Mul(candidate_squareroot, candidate_squareroot), value)
    IN  IF \E k \in {0, 2, 4, 6} : EIGTH_ROOTS_OF_UNITY[k] = check
        THEN LET x1 == FQ2Div(candidate_squareroot,
                              EIGTH_ROOTS_OF_UNITY[RootIndex(check) \div 2])
                 x2 == FQ2Neg(x1)
                 x1_re == x1[1]
                 x1_im == x1[2]
                 x2_re == x2[1]
                 x2_im == x2[2]
             IN  IF x1_im > x2_im \/ (x1_im = x2_im /\ x1_re > x2_re)
                 THEN x1 ELSE x2
        ELSE None

(***************************************************************************)
(* Specification of the square root alone: the input is any FQ2 value.     *)
(***************************************************************************)
InitSqrt ==
    /\ fn = "modular_squareroot_in_FQ2"
    /\ pc = "call"
    /\ arg \in FQ2Set
    /\ mid = None
    /\ res = Pending

Sqrt ==
    /\ fn = "modular_squareroot_in_FQ2"
    /\ pc = "call"
    /\ res' = Ok(modular_squareroot_in_FQ2(arg))
    /\ pc' = "return"
    /\ UNCHANGED <<fn, arg, mid>>

NextSqrt == Sqrt

SpecSqrt == InitSqrt /\ [][NextSqrt]_vars

(***************************************************************************)
(* Curve operations of py_ecc.optimized_bls12_381 used by the codec.       *)
(* A point is a projective triple <<x, y, z>> standing for (x/z, y/z);     *)
(* z = 0 is the point at infinity.                                         *)
(***************************************************************************)
Z1 == <<1, 1, 0>>
Z2 == <<FQ2One, FQ2One, FQ2Zero>>

is_inf_G1(pt) == pt[3] = 0
is_inf_G2(pt) == pt[3] = FQ2Zero

normalize_G1(pt) == <<(pt[1] * FQInv(pt[3])) % q, (pt[2] * FQInv(pt[3])) % q>>
normalize_G2(pt) == <<FQ2Div(pt[1], pt[3]), FQ2Div(pt[2], pt[3])>>

FQ2Cube(x) == FQ2Mul(FQ2Mul(x, x), x)

is_on_curve_G1(pt) ==
    \/ is_inf_G1(pt)
    \/ (pt[2] * pt[2] * pt[3] + (q - 1) * (pt[1] * pt[1] * pt[1])) % q
           = (b * pt[3] * pt[3] * pt[3]) % q

is_on_curve_G2(pt, coeff) ==
    \/ is_inf_G2(pt)
    \/ FQ2Add(FQ2Mul(FQ2Mul(pt[2], pt[2]), pt[3]), FQ2Neg(FQ2Cube(pt[1])))
           = FQ2Mul(coeff, FQ2Cube(pt[3]))

(***************************************************************************)
(* G1                                                                      *)
(***************************************************************************)
compress_G1_flag_shift(pt) ==
    IF is_inf_G1(pt)
    THEN POW_2_383 + POW_2_382
    ELSE LET xy == normalize_G1(pt)
             a_flag == (xy[2] * 2) \div q
         IN  xy[1] + a_flag * POW_2_382 + POW_2_383

compress_G1(pt) ==
    IF is_inf_G1(pt)
    THEN POW_2_383 + POW_2_382
    ELSE LET xy == normalize_G1(pt)
             x == xy[1]
             y == xy[2]
             a_flag == (y * 2) \div q
         IN  x + a_flag * POW_2_381 + POW_2_383

decompress_G1_no_flip(z) ==
    LET b_flag == (z % POW_2_383) \div POW_2_382
        x == z % POW_2_381
        y == pow((x * x * x + b) % q, (q + 1) \div 4, q)
    IN  IF b_flag = 1 THEN Ok(Z1)
        ELSE IF pow(y, 2, q) # (x * x * x + b) % q THEN Raise(NotOnG1)
        ELSE Ok(<<FQ(x), FQ(y), FQ(1)>>)

decompress_G1(z) ==
    LET b_flag == (z % POW_2_383) \div POW_2_382
        x == z % POW_2_381
        y == pow((x * x * x + b) % q, (q + 1) \div 4, q)
        a_flag == (z % POW_2_382) \div POW_2_381
    IN  IF b_flag = 1 THEN Ok(Z1)
        ELSE IF pow(y, 2, q) # (x * x * x + b) % q THEN Raise(NotOnG1)
        ELSE IF (y * 2) \div q # a_flag THEN Ok(<<FQ(x), FQ(q - y), FQ(1)>>)
        ELSE Ok(<<FQ(x), FQ(y), FQ(1)>>)

(***************************************************************************)
(* G2                                                                      *)
(***************************************************************************)
compress_G2(pt) ==
    IF ~ is_on_curve_G2(pt, b2) THEN Raise(NotOnTwist)
    ELSE IF is_inf_G2(pt) THEN Ok(<<POW_2_383 + POW_2_382, 0>>)
    ELSE LET xy == normalize_G2(pt)
             x_re == xy[1][1]
             x_im == xy[1][2]
             y_re == xy[2][1]
             y_im == xy[2][2]
             a_flag1 == IF y_im > 0 THEN (y_im * 2) \div q ELSE (y_re * 2) \div q
             z1 == x_im + a_flag1 * POW_2_381 + POW_2_383
             z2 == x_re
         IN  Ok(<<z1, z2>>)

decompress_G2_real_bit(p) ==
    LET z1 == p[1]
        b_flag1 == (z1 % POW_2_383) \div POW_2_382
        x == FQ2(<<p[2], z1 % POW_2_381>>)
        y0 == modular_squareroot_in_FQ2(FQ2Add(FQ2Cube(x), b2))
        a_flag1 == (z1 % POW_2_382) \div POW_2_381
    IN  IF b_flag1 = 1 THEN Ok(Z2)
        ELSE IF y0 = None THEN Raise(NoSquareroot)
        ELSE LET y == IF (y0[1] * 2) \div q # a_flag1 THEN FQ2(FQ2Neg(y0)) ELSE y0
             IN  IF ~ is_on_curve_G2(<<x, y, FQ2One>>, b2) THEN Raise(NotOnTwist)
                 ELSE Ok(<<x, y, FQ2One>>)

decompress_G2(p) ==
    LET z1 == p[1]
        z2 == p[2]
        b_flag1 == (z1 % POW_2_383) \div POW_2_382
        x1 == z1 % POW_2_381
        x2 == z2
        x == FQ2(<<x2, x1>>)
        y0 == modular_squareroot_in_FQ2(FQ2Add(FQ2Cube(x), b2))
        a_flag1 == (z1 % POW_2_382) \div POW_2_381
    IN  IF b_flag1 = 1 THEN Ok(Z2)
        ELSE IF y0 = None THEN Raise(NoSquareroot)
        ELSE LET y_re == y0[1]
                 y_im == y0[2]
                 y == IF \/ (y_im > 0 /\ (y_im * 2) \div q # a_flag1)
                         \/ (y_im = 0 /\ (y_re * 2) \div q # a_flag1)
                      THEN FQ2(FQ2Neg(y0))
                      ELSE y0
             IN  IF ~ is_on_curve_G2(<<x, y, FQ2One>>, b2) THEN Raise(NotOnTwist)
                 ELSE Ok(<<x, y, FQ2One>>)

(***************************************************************************)
(* Specification of the decoders: the input is any encoding, a 9-bit       *)
(* integer for G1 and a pair of them for G2, or any FQ2 value for the      *)
(* square root.                                                            *)
(***************************************************************************)
G1Encodings == 0 .. (2 * POW_2_383 - 1)
G2Encodings == G1Encodings \X G1Encodings

InitDecode ==
    /\ pc = "call"
    /\ mid = None
    /\ res = Pending
    /\ \/ fn = "decompress_G1" /\ arg \in G1Encodings
       \/ fn = "decompress_G2" /\ arg \in G2Encodings
       \/ fn = "modular_squareroot_in_FQ2" /\ arg \in FQ2Set

DecompressG1 ==
    /\ fn = "decompress_G1"
    /\ pc = "call"
    /\ res' = decompress_G1(arg)
    /\ pc' = "return"
    /\ UNCHANGED <<fn, arg, mid>>

DecompressG2 ==
    /\ fn = "decompress_G2"
    /\ pc = "call"
    /\ res' = decompress_G2(arg)
    /\ pc' = "return"
    /\ UNCHANGED <<fn, arg, mid>>

NextDecode == Sqrt \/ DecompressG1 \/ DecompressG2

SpecDecode == InitDecode /\ [][NextDecode]_vars

(***************************************************************************)
(* Specification of the round trip point -> encoding -> point.             *)
(* G1 inputs are all projective triples over FQ (compress_G1 does not      *)
(* check membership).  G2 inputs are every affine point of the twisted     *)
(* curve in each projective scaling by a small factor, and all triples     *)
(* with small coefficients (points off the curve, representations of       *)
(* infinity).                                                              *)
(***************************************************************************)
MaxProjCoeff == 1

SmallFQ2 == (0 .. MaxProjCoeff) \X (0 .. MaxProjCoeff)

G1Triples == FQSet \X FQSet \X FQSet

FQ2Index(n) == <<(n - 1) \div q, (n - 1) % q>>

FQ2Code(v) == v[1] * q + v[2]

CurveRhsTable == [n \in 1 .. q * q |-> FQ2Code(FQ2Add(FQ2Cube(FQ2Index(n)), b2))]

SquareTable == [n \in 1 .. q * q |-> FQ2Code(FQ2Mul(FQ2Index(n), FQ2Index(n)))]

AffineG2 ==
    UNION {{<<FQ2Index(n), FQ2Index(m)>> :
                m \in {m \in 1 .. q * q : SquareTable[m] = CurveRhsTable[n]}} :
           n \in 1 .. q * q}

G2Triples ==
    {<<FQ2Mul(xy[1], z), FQ2Mul(xy[2], z), z>> :
         xy \in AffineG2, z \in SmallFQ2 \ {FQ2Zero}}
    \cup (SmallFQ2 \X SmallFQ2 \X SmallFQ2)

InitRoundTrip ==
    /\ pc = "call"
    /\ mid = None
    /\ res = Pending
    /\ \/ fn = "compress_G1" /\ arg \in G1Triples
       \/ fn = "compress_G2" /\ arg \in G2Triples

CompressG1 ==
    /\ fn = "compress_G1"
    /\ pc = "call"
    /\ mid' = compress_G1(arg)
    /\ pc' = "compressed"
    /\ UNCHANGED <<fn, arg, res>>

DecompressCompressedG1 ==
    /\ fn = "compress_G1"
    /\ pc = "compressed"
    /\ res' = decompress_G1(mid)
    /\ pc' = "return"
    /\ UNCHANGED <<fn, arg, mid>>

CompressG2 ==
    /\ fn = "compress_G2"
    /\ pc = "call"
    /\ LET r == compress_G2(arg)
       IN  IF r.tag = "ok"
           THEN mid' = r.val /\ pc' = "compressed" /\ res' = res
           ELSE mid' = mid /\ pc' = "return" /\ res' = r
    /\ UNCHANGED <<fn, arg>>

DecompressCompressedG2 ==
    /\ fn = "compress_G2"
    /\ pc = "compressed"
    /\ res' = decompress_G2(mid)
    /\ pc' = "return"
    /\ UNCHANGED <<fn, arg, mid>>

NextRoundTrip ==
    CompressG1 \/ DecompressCompressedG1 \/ CompressG2 \/ DecompressCompressedG2

SpecRoundTrip == InitRoundTrip /\ [][NextRoundTrip]_vars

(***************************************************************************)
(* Byte strings: sequences of digits below ByteBase, most significant      *)
(* first.  An encoding is KeyBytes digits long.                            *)
(***************************************************************************)
ByteBase == 8
KeyBytes == 3

RECURSIVE big_endian_to_int(_)
big_endian_to_int(s) ==
    IF Len(s) = 0 THEN 0
    ELSE big_endian_to_int(SubSeq(s, 1, Len(s) - 1)) * ByteBase + s[Len(s)]

to_bytes(n, length) ==
    IF n >= ByteBase ^ length THEN Raise("OverflowError: int too big to convert")
    ELSE Ok([i \in 1 .. length |-> (n \div (ByteBase ^ (length - i))) % ByteBase])

Slice(s, lo, hi) ==
    SubSeq(s, (IF lo < Len(s) THEN lo ELSE Len(s)) + 1, IF hi < Len(s) THEN hi ELSE Len(s))

G1_to_pubkey(pt) ==
    LET z == compress_G1(pt)
    IN  to_bytes(z, KeyBytes)

pubkey_to_G1(pubkey) ==
    LET z == big_endian_to_int(pubkey)
    IN  decompress_G1(z)

G2_to_signature(pt) ==
    LET c == compress_G2(pt)
    IN  IF c.tag # "ok" THEN c
        ELSE LET h1 == to_bytes(c.val[1], KeyBytes)
                 h2 == to_bytes(c.val[2], KeyBytes)
             IN  IF h1.tag # "ok" THEN h1
                 ELSE IF h2.tag # "ok" THEN h2
                 ELSE Ok(h1.val \o h2.val)

signature_to_G2(signature) ==
    LET p == <<big_endian_to_int(Slice(signature, 0, KeyBytes)),
               big_endian_to_int(Slice(signature, KeyBytes, Len(signature)))>>
    IN  decompress_G2(p)

(***************************************************************************)
(* Specification of the key codec: the input is a byte string of any       *)
(* length up to the bound; a decoded point is encoded again.               *)
(***************************************************************************)
MaxPubkeyLen == 4
MaxSigTail == 4

TailDigits == {0, 1, ByteBase - 1}

BytesUpTo(n, digits) == UNION {[1 .. k -> digits] : k \in 0 .. n}

PubkeyInputs == BytesUpTo(MaxPubkeyLen, 0 .. (ByteBase - 1))

SignatureInputs ==
    {h \o t : h \in BytesUpTo(KeyBytes, 0 .. (ByteBase - 1)),
              t \in BytesUpTo(MaxSigTail, TailDigits)}

InitKeyCodec ==
    /\ pc = "call"
    /\ mid = None
    /\ res = Pending
    /\ \/ fn = "pubkey_to_G1" /\ arg \in PubkeyInputs
       \/ fn = "signature_to_G2" /\ arg \in SignatureInputs

PubkeyToG1 ==
    /\ fn = "pubkey_to_G1"
    /\ pc = "call"
    /\ res' = pubkey_to_G1(arg)
    /\ pc' = IF res'.tag = "ok" THEN "decoded" ELSE "return"
    /\ UNCHANGED <<fn, arg, mid>>

G1ToPubkey ==
    /\ fn = "pubkey_to_G1"
    /\ pc = "decoded"
    /\ mid' = G1_to_pubkey(res.val)
    /\ pc' = "return"
    /\ UNCHANGED <<fn, arg, res>>

SignatureToG2 ==
    /\ fn = "signature_to_G2"
    /\ pc = "call"
    /\ res' = signature_to_G2(arg)
    /\ pc' = IF res'.tag = "ok" THEN "decoded" ELSE "return"
    /\ UNCHANGED <<fn, arg, mid>>

G2ToSignature ==
    /\ fn = "signature_to_G2"
    /\ pc = "decoded"
    /\ mid' = G2_to_signature(res.val)
    /\ pc' = "return"
    /\ UNCHANGED <<fn, arg, res>>

NextKeyCodec == PubkeyToG1 \/ G1ToPubkey \/ SignatureToG2 \/ G2ToSignature

SpecKeyCodec == InitKeyCodec /\ [][NextKeyCodec]_vars

(***************************************************************************)
(* Hash to G2.  The key derivation (hkdf_extract, hkdf_expand) and the     *)
(* curve maps (optimized_swu_G2, iso_map_G2, add,                          *)
(* multiply_clear_cofactor_G2) are collaborators with fixed contracts:     *)
(* each is an uninterpreted function, its value the term <<name, args>>,   *)
(* so that two results are equal exactly when they were computed by the    *)
(* same calls on the same arguments in the same order.                     *)
(***************************************************************************)
DST == "DomainSeparationTag"
HASH_TO_G2_L == 64

hkdf_extract(salt, ikm) == <<"hkdf_extract", salt, ikm>>
hkdf_expand(prk, info, length) == <<"hkdf_expand", prk, info, length>>
os2ip(t) == <<"big_endian_to_int", t>>
FQ2Term(e) == <<"FQ2", e[1], e[2]>>
optimized_swu_G2(u) == <<<<"swu_x", u>>, <<"swu_y", u>>, <<"swu_z", u>>>>
iso_map_G2(x, y, z) == <<"iso_map_G2", x, y, z>>
add(p1, p2) == <<"add", p1, p2>>
multiply_clear_cofactor_G2(p) == <<"multiply_clear_cofactor_G2", p>>

H2C == <<72, 50, 67>>

RECURSIVE ExpandLoop(_, _, _, _)
ExpandLoop(m_prime, ctr, i, e) ==
    IF i >= 3 THEN e
    ELSE LET info == H2C \o <<ctr>> \o <<i>>
             t == hkdf_expand(m_prime, info, HASH_TO_G2_L)
         IN  ExpandLoop(m_prime, ctr, i + 1, Append(e, os2ip(t)))

hash_to_base_FQ2_zero_based(message_hash, ctr) ==
    LET m_prime == hkdf_extract(DST, message_hash)
        e == ExpandLoop(m_prime, ctr, 0, <<>>)
    IN  FQ2Term(e)

hash_to_base_FQ2(message_hash, ctr) ==
    LET m_prime == hkdf_extract(DST, message_hash)
        e == ExpandLoop(m_prime, ctr, 1, <<>>)
    IN  FQ2Term(e)

map_to_curve_G2(u) ==
    LET xyz == optimized_swu_G2(u)
    IN  iso_map_G2(xyz[1], xyz[2], xyz[3])

clear_cofactor_G2(p) == multiply_clear_cofactor_G2(p)

hash_to_G2(message_hash) ==
    LET u0 == hash_to_base_FQ2(message_hash, 0)
        u1 == hash_to_base_FQ2(message_hash, 1)
        q0 == map_to_curve_G2(u0)
        q1 == map_to_curve_G2(u1)
        r == add(q0, q1)
        p == clear_cofactor_G2(r)
    IN  p

(***************************************************************************)
(* Specification of the hash: the input is a message hash (an abstract     *)
(* value, numbered), hashed to a field element for either counter, or to   *)
(* a point.                                                                *)
(***************************************************************************)
MaxMessage == 63

Messages == 0 .. MaxMessage

InitHash ==
    /\ pc = "call"
    /\ mid = None
    /\ res = Pending
    /\ \/ fn = "hash_to_G2" /\ arg \in Messages
       \/ fn = "hash_to_base_FQ2" /\ arg \in Messages \X {0, 1}

HashToG2 ==
    /\ fn = "hash_to_G2"
    /\ pc = "call"
    /\ res' = Ok(hash_to_G2(arg))
    /\ pc' = "return"
    /\ UNCHANGED <<fn, arg, mid>>

HashToBaseFQ2 ==
    /\ fn = "hash_to_base_FQ2"
    /\ pc = "call"
    /\ res' = Ok(hash_to_base_FQ2(arg[1], arg[2]))
    /\ pc' = "return"
    /\ UNCHANGED <<fn, arg, mid>>

NextHash == HashToG2 \/ HashToBaseFQ2

SpecHash == InitHash /\ [][NextHash]_vars

(***************************************************************************)
(* Vocabulary of the properties.  The sets of squares are computed by      *)
(* squaring every element, independently of the root algorithms.           *)
(***************************************************************************)
FQSquares == {(y * y) % q : y \in FQSet}
FQ2Squares == {FQ2Mul(y, y) : y \in FQ2Set}

CFlag(z) == (z \div POW_2_383) % 2
BFlag(z) == (z \div POW_2_382) % 2
AFlag(z) == (z \div POW_2_381) % 2
LowBits(z) == z % POW_2_381

CurveRhsG1(z) == (LowBits(z) * LowBits(z) * LowBits(z) + b) % q
CurveRhsG2(p) == FQ2Add(FQ2Cube(FQ2(<<p[2], LowBits(p[1])>>)), b2)

SignBitG1(y) == (y * 2) \div q
SignBitG2(y) == IF y[2] > 0 THEN (y[2] * 2) \div q ELSE (y[1] * 2) \div q

SamePointG1(p, r) ==
    /\ is_inf_G1(p) = is_inf_G1(r)
    /\ ~ is_inf_G1(p) => normalize_G1(p) = normalize_G1(r)

SamePointG2(p, r) ==
    /\ is_inf_G2(p) = is_inf_G2(r)
    /\ ~ is_inf_G2(p) => normalize_G2(p) = normalize_G2(r)

(* C1: for every valid point of G1 and of G2, in any projective            *)
(* representation and including infinity, decompressing the compressed     *)
(* point returns without error a point with the same infinity status and   *)
(* the same affine coordinates.                                            *)
C1_RoundTripPoints ==
    /\ fn = "compress_G1" /\ is_on_curve_G1(arg) /\ pc = "return"
           => res.tag = "ok" /\ SamePointG1(arg, res.val)
    /\ fn = "compress_G2" /\ is_on_curve_G2(arg, b2) /\ pc = "return"
           => res.tag = "ok" /\ SamePointG2(arg, res.val)

C1_Witness ==
    /\ fn = "compress_G2"
    /\ pc = "return"
    /\ res.tag = "ok"
    /\ ~ is_inf_G2(arg)
    /\ arg[3] # FQ2One
    /\ AFlag(mid[1]) = 1

(* C2: every 48-byte value that pubkey_to_G1 decodes is re-encoded by      *)
(* G1_to_pubkey to the same bytes.                                         *)
C2_RoundTripBytes ==
    fn = "pubkey_to_G1" /\ pc = "return" /\ Len(arg) = KeyBytes /\ res.tag = "ok"
        => mid = Ok(arg)

(* C3: pubkey_to_G1 fails for every input that is not exactly 48 bytes     *)
(* long and signature_to_G2 for every input that is not exactly 96 bytes   *)
(* long.                                                                   *)
C3_LengthChecked ==
    /\ fn = "pubkey_to_G1" /\ pc # "call" /\ Len(arg) # KeyBytes
           => res.tag = "error"
    /\ fn = "signature_to_G2" /\ pc # "call" /\ Len(arg) # 2 * KeyBytes
           => res.tag = "error"

(* C4: whenever modular_squareroot_in_FQ2(v) returns a value r, r*r = v    *)
(* and r is the one of r and -r with the larger imaginary coefficient, or, *)
(* the imaginary coefficients being equal, the larger real coefficient.    *)
C4_SqrtCanonicalRoot ==
    fn = "modular_squareroot_in_FQ2" /\ pc = "return" /\ res.val # None
        => /\ FQ2Mul(res.val, res.val) = arg
           /\ LET r == res.val
                  n == FQ2Neg(res.val)
              IN  r[2] > n[2] \/ (r[2] = n[2] /\ r[1] > n[1])

C4_Witness ==
    /\ fn = "modular_squareroot_in_FQ2"
    /\ pc = "return"
    /\ res.val # None
    /\ res.val[2] = 0
    /\ res.val[1] > q \div 2

(* C5: for every FQ2 value that is not a square the root function returns  *)
(* None, and decompress_G2 raises "Failed to find a modular squareroot"    *)
(* for every encoding with b_flag = 0 whose x has x^3 + b2 not a square.   *)
C5_NonResidueRejected ==
    /\ fn = "modular_squareroot_in_FQ2" /\ pc = "return" /\ arg \notin FQ2Squares
           => res.val = None
    /\ fn = "decompress_G2" /\ pc = "return" /\ BFlag(arg[1]) = 0
          /\ CurveRhsG2(arg) \notin FQ2Squares
           => res.tag = "error" /\ res.val = NoSquareroot

C5_Witness ==
    /\ fn = "decompress_G2"
    /\ pc = "return"
    /\ BFlag(arg[1]) = 0
    /\ CurveRhsG2(arg) \notin FQ2Squares
    /\ arg[2] >= q

(* C6: a value of compress_G1 and a z1 of compress_G2 is below 2^384 with  *)
(* c_flag = 1; for infinity it is 2^383 + 2^382 (and z2 = 0); for a finite *)
(* point b_flag = 0 and the low 381 bits are x (x_im for G2); every z2 is  *)
(* below 2^381.                                                            *)
C6_FlagBits ==
    /\ fn = "compress_G1" /\ pc = "compressed"
           => /\ mid < 2 * POW_2_383
              /\ CFlag(mid) = 1
              /\ is_inf_G1(arg) => mid = POW_2_383 + POW_2_382
              /\ ~ is_inf_G1(arg)
                     => BFlag(mid) = 0 /\ LowBits(mid) = normalize_G1(arg)[1]
    /\ fn = "compress_G2" /\ pc = "compressed"
           => /\ mid[1] < 2 * POW_2_383
              /\ CFlag(mid[1]) = 1
              /\ mid[2] < POW_2_381
              /\ is_inf_G2(arg) => mid = <<POW_2_383 + POW_2_382, 0>>
              /\ ~ is_inf_G2(arg)
                     => /\ BFlag(mid[1]) = 0
                        /\ LowBits(mid[1]) = normalize_G2(arg)[1][2]
                        /\ mid[2] = normalize_G2(arg)[1][1]

C6_Witness ==
    /\ fn = "compress_G1"
    /\ pc = "compressed"
    /\ ~ is_inf_G1(arg)
    /\ arg[3] # 1
    /\ AFlag(mid) = 1

(* C7: for every 48-byte value whose low 381 bits form an x with x^3 + b   *)
(* not a square modulo q, decompress_G1 fails with the "not on G1" error.  *)
C7_NonResidueNotOnG1 ==
    fn = "decompress_G1" /\ pc = "return" /\ CurveRhsG1(arg) \notin FQSquares
        => res.tag = "error" /\ res.val = NotOnG1

(* C8: for every encoding with b_flag = 0 that decompress_G1 or            *)
(* decompress_G2 decodes, the flag recomputed from the returned y by the   *)
(* compression rule is the a_flag stored in the input.                     *)
C8_DecodedRootMatchesFlag ==
    /\ fn = "decompress_G1" /\ pc = "return" /\ BFlag(arg) = 0 /\ res.tag = "ok"
           => SignBitG1(res.val[2]) = AFlag(arg)
    /\ fn = "decompress_G2" /\ pc = "return" /\ BFlag(arg[1]) = 0 /\ res.tag = "ok"
           => SignBitG2(res.val[2]) = AFlag(arg[1])

C8_Witness ==
    /\ fn = "decompress_G2"
    /\ pc = "return"
    /\ BFlag(arg[1]) = 0
    /\ res.tag = "ok"
    /\ AFlag(arg[1]) = 0
    /\ res.val[2] # modular_squareroot_in_FQ2(CurveRhsG2(arg))

(* C9: hash_to_G2(m) is clear_cofactor(add(map(u0), map(u1))), where u_c   *)
(* is the FQ2 element of the big-endian integers of                        *)
(* hkdf_expand(hkdf_extract(DST, m), "H2C" || c || i, L) for i = 1, 2 in   *)
(* that order, and map is the isogeny map applied to the three outputs of  *)
(* the simplified SWU map.                                                 *)
C9_HashToG2Composition ==
    fn = "hash_to_G2" /\ pc = "return"
        => LET prk == <<"hkdf_extract", DST, arg>>
               E(c, i) == <<"big_endian_to_int",
                            <<"hkdf_expand", prk, <<72, 50, 67, c, i>>, HASH_TO_G2_L>>>>
               U(c) == <<"FQ2", E(c, 1), E(c, 2)>>
               M(u) == <<"iso_map_G2", <<"swu_x", u>>, <<"swu_y", u>>, <<"swu_z", u>>>>
           IN  res.val = <<"multiply_clear_cofactor_G2", <<"add", M(U(0)), M(U(1))>>>>

C9_Witness ==
    /\ fn = "hash_to_G2"
    /\ pc = "return"
    /\ arg = MaxMessage
    /\ res.val[1] = "multiply_clear_cofactor_G2"

(* C10: modular_squareroot_in_FQ2 returns a root, not None, for every FQ2  *)
(* value that has a square root, zero included.                            *)
C10_SquareHasRoot ==
    fn = "modular_squareroot_in_FQ2" /\ pc = "return" /\ arg \in FQ2Squares
        => res.val # None

====
